---- MODULE Spec2Model ----
(***************************************************************************)
(* Package Update Monitor (updatery.py).                                   *)
(*                                                                         *)
(* Four state machines over one set of variables:                          *)
(*   SpecAdapter  one scan (get_updatable_packages) of the winget or the   *)
(*                npm adapter over a bounded set of tool outcomes;         *)
(*   Spec         the scan workers of one PackageManagerWidget;            *)
(*   SpecUpgrade  one upgrade batch (_run_upgrades) of one widget;         *)
(*   SpecExitCode one upgrade over every exit code of the adapters' tables.*)
(*                                                                         *)
(* Text is a sequence of one-character strings; character offsets are      *)
(* 0-based as in Python, -1 is str.find's "not found".                     *)
(***************************************************************************)
EXTENDS Integers, Sequences, FiniteSets, TLC

VARIABLES
    adapter,        \* which adapter the scan is run on: "winget" | "npm"
    run_result,     \* outcome of subprocess.run for the scan
    scan_pc,        \* "ready" before get_updatable_packages, "done" after
    parsed,         \* what _parse_winget_list returned during the scan
    scan_out,       \* what get_updatable_packages did: returned or raised
    _packages,      \* PackageManagerWidget._packages
    _is_loading,    \* PackageManagerWidget._is_loading
    log,            \* what was written to the widget's RichLog, in order
    workers,        \* the widget's "refresh" workers, in the order they were started
    queue,          \* Worker.StateChanged messages posted to the widget, not yet handled
    app_callbacks,  \* _show_error callbacks given to app.call_later, not yet run
    superseded,     \* history: workers that were outstanding when a newer scan was issued
    assigned,       \* history: workers whose result was assigned to _packages, in order
    selected,       \* the ids selected in the list when upgrade_selected is called
    package_ids,    \* _run_upgrades: its argument
    upg_pc,         \* _run_upgrades: where the coroutine is suspended
    idx,            \* _run_upgrades: 1-based position of pkg_id in package_ids
    procs,          \* the child process of each item of the batch
    output_lines    \* upgrade_package: the lines read so far

adapterVars == <<adapter, run_result, scan_pc, parsed, scan_out>>
widgetVars == <<_packages, _is_loading, log>>
workerVars == <<workers, queue, app_callbacks, superseded, assigned>>

upgradeVars == <<selected, package_ids, upg_pc, idx, procs, output_lines>>

vars == <<adapterVars, widgetVars, workerVars, upgradeVars>>

----------------------------------------------------------------------------
(* Bounds *)

MaxLines == 3       \* lines of tool output in a scan of the winget adapter
MaxEntries == 2     \* top-level keys of the JSON object in a scan of npm
MaxScans == 3       \* scans started on one widget
MaxBatch == 2       \* ids selected for one upgrade batch
MaxChildLines == 1  \* lines an upgrade child writes

----------------------------------------------------------------------------
(* Python str primitives *)

NL == "\n"

MinOf(S) == CHOOSE x \in S : \A y \in S : x <= y
MaxOf(S) == CHOOSE x \in S : \A y \in S : x >= y

IsSpace(c) == c \in {" ", "\t", NL}

\* str.find(sub): lowest 0-based offset of sub in s, -1 when absent
Find(s, sub) ==
    LET hits == {i \in 0..(Len(s) - Len(sub)) : SubSeq(s, i + 1, i + Len(sub)) = sub}
    IN  IF hits = {} THEN -1 ELSE MinOf(hits)

\* `sub in s`
Contains(s, sub) == Find(s, sub) >= 0

\* str.strip()
Strip(s) ==
    LET keep == {i \in 1..Len(s) : ~IsSpace(s[i])}
    IN  IF keep = {} THEN <<>> ELSE SubSeq(s, MinOf(keep), MaxOf(keep))

\* str.rstrip()
RStrip(s) ==
    LET keep == {i \in 1..Len(s) : ~IsSpace(s[i])}
    IN  IF keep = {} THEN <<>> ELSE SubSeq(s, 1, MaxOf(keep))

\* s[start:end] for start, end >= 0
Slice(s, start, end) ==
    LET hi == IF end < Len(s) THEN end ELSE Len(s)
    IN  IF start >= hi THEN <<>> ELSE SubSeq(s, start + 1, hi)

\* str.replace("-", "")
RemoveDashes(s) == SelectSeq(s, LAMBDA c : c # "-")

\* str.splitlines(): no final empty line after a trailing newline
RECURSIVE SplitLines(_)
SplitLines(text) ==
    IF text = <<>> THEN <<>>
    ELSE LET nl == Find(text, <<NL>>)
         IN  IF nl = -1 THEN <<text>>
             ELSE <<Slice(text, 0, nl)>> \o SplitLines(Slice(text, nl + 1, Len(text)))

\* str.split("\n"): always at least one piece
RECURSIVE SplitNL(_)
SplitNL(text) ==
    LET nl == Find(text, <<NL>>)
    IN  IF nl = -1 THEN <<text>>
        ELSE <<Slice(text, 0, nl)>> \o SplitNL(Slice(text, nl + 1, Len(text)))

\* "\n".join(lines)
RECURSIVE JoinNL(_)
JoinNL(lines) ==
    IF lines = <<>> THEN <<>>
    ELSE IF Len(lines) = 1 THEN lines[1]
    ELSE lines[1] \o <<NL>> \o JoinNL(Tail(lines))

\* dict.get(k, default)
Get(d, k, default) == IF k \in DOMAIN d THEN d[k] ELSE default

\* outcome of a call: a returned value or a raised exception
Return(v) == [kind |-> "return", value |-> v, exc |-> "none"]
Raise(e) == [kind |-> "raise", value |-> <<>>, exc |-> e]

PackageInfo(n, i, c, a) ==
    [name |-> n, package_id |-> i, current_version |-> c, available_version |-> a]

Unknown == <<"?">>

----------------------------------------------------------------------------
(* WingetManager._parse_winget_list *)

Keyword(name) ==
    CASE name = "Name" -> <<"N", "a", "m", "e">>
      [] name = "Id" -> <<"I", "d">>
      [] name = "Version" -> <<"V", "e", "r", "s", "i", "o", "n">>
      [] name = "Available" -> <<"A", "v", "a", "i", "l", "a", "b", "l", "e">>
      [] name = "Source" -> <<"S", "o", "u", "r", "c", "e">>

col_names == <<"Name", "Id", "Version", "Available", "Source">>

IsHeader(line) ==
    /\ Contains(line, Keyword("Name"))
    /\ Contains(line, Keyword("Id"))
    /\ Contains(line, Keyword("Version"))

\* 0-based index of the first header line, -1 for None
HeaderIdx(lines) ==
    LET hits == {i \in 1..Len(lines) : IsHeader(lines[i])}
    IN  IF hits = {} THEN -1 ELSE MinOf(hits) - 1

\* the test of line 99 that lets the parser go on: a line follows the header
\* and, stripped and with its dashes removed, is the empty string
IsAllDashes(line) == RemoveDashes(Strip(line)) = <<>>

SeparatorOk(lines, sep_idx) ==
    /\ sep_idx < Len(lines)
    /\ IsAllDashes(lines[sep_idx + 1])

\* (name, pos) for the column names found in the header, in col_names order
FoundColumns(header_line) ==
    LET all == [j \in 1..Len(col_names) |->
                    <<col_names[j], Find(header_line, Keyword(col_names[j]))>>]
    IN  SelectSeq(all, LAMBDA c : c[2] >= 0)

\* list.sort(key=pos): stable insertion by position
InsertByPos(sorted, c) ==
    LET before == SelectSeq(sorted, LAMBDA x : x[2] <= c[2])
        after == SelectSeq(sorted, LAMBDA x : x[2] > c[2])
    IN  before \o <<c>> \o after

RECURSIVE SortByPos(_)
SortByPos(cols) ==
    IF cols = <<>> THEN <<>>
    ELSE InsertByPos(SortByPos(SubSeq(cols, 1, Len(cols) - 1)), cols[Len(cols)])

\* end offset of column j: the next column's start, or the end of the line
ColumnEnd(col_starts, j, line) ==
    IF j + 1 <= Len(col_starts) THEN col_starts[j + 1][2] ELSE Len(line)

CellNoStrip(line, start, end) ==
    IF start < Len(line) THEN Slice(line, start, end) ELSE <<>>

\* line[start:end].strip() if start < len(line) else ""
Cell(line, start, end) ==
    IF start < Len(line) THEN Strip(Slice(line, start, end)) ELSE <<>>

\* the dict of one data row
RowValues(line, col_starts) ==
    [n \in {col_starts[j][1] : j \in 1..Len(col_starts)} |->
        LET j == CHOOSE k \in 1..Len(col_starts) : col_starts[k][1] = n
        IN  Cell(line, col_starts[j][2], ColumnEnd(col_starts, j, line))]

RECURSIVE RowsOf(_, _)
RowsOf(lines, col_starts) ==
    IF lines = <<>> THEN <<>>
    ELSE IF Strip(lines[1]) = <<>> THEN RowsOf(Tail(lines), col_starts)
    ELSE <<RowValues(lines[1], col_starts)>> \o RowsOf(Tail(lines), col_starts)

ParseWingetList(output) ==
    LET lines == SplitLines(output)
        header_idx == HeaderIdx(lines)
    IN  IF header_idx = -1 THEN <<>>
        ELSE LET header_line == lines[header_idx + 1]
                 sep_idx == header_idx + 1
             IN  IF ~SeparatorOk(lines, sep_idx) THEN <<>>
                 ELSE LET col_starts == SortByPos(FoundColumns(header_line))
                      IN  IF Len(col_starts) < 3 THEN <<>>
                          ELSE RowsOf(Slice(lines, sep_idx + 1, Len(lines)), col_starts)

----------------------------------------------------------------------------
(* WingetManager.get_updatable_packages *)

Winget == <<"w", "i", "n", "g", "e", "t">>

\* the comprehension's condition, lines 161
IsUpdateCandidate(p) ==
    /\ "Source" \in DOMAIN p
    /\ p["Source"] = Winget
    /\ Strip(Get(p, "Available", <<>>)) # <<>>

WingetRecord(p) ==
    PackageInfo(Get(p, "Name", Unknown), Get(p, "Id", Unknown),
                Get(p, "Version", Unknown), Get(p, "Available", Unknown))

RECURSIVE WingetRecords(_)
WingetRecords(packages) ==
    IF packages = <<>> THEN <<>>
    ELSE (IF IsUpdateCandidate(packages[1]) THEN <<WingetRecord(packages[1])>> ELSE <<>>)
         \o WingetRecords(Tail(packages))

WingetGetUpdatablePackages(run) ==
    IF run.kind \in {"timeout", "spawn_error"} THEN Return(<<>>)
    ELSE Return(WingetRecords(ParseWingetList(run.stdout)))

----------------------------------------------------------------------------
(* NpmManager.get_updatable_packages *)

\* json.loads(stdout): the captured text either fails to decode or decodes to
\* a JSON value; the text is held as that outcome
JsonLoads(stdout) ==
    IF stdout.decodes THEN Return(stdout.data) ELSE Raise("JSONDecodeError")

\* `current and latest and current != latest`
NpmKeeps(current, latest) == current # <<>> /\ latest # <<>> /\ current # latest

NpmCurrent(info) == Get(info.fields, "current", Unknown)
NpmLatest(info) == Get(info.fields, "latest", Unknown)

RECURSIVE NpmRecords(_)
NpmRecords(items) ==
    IF items = <<>> THEN <<>>
    ELSE LET package_name == items[1].key
             info == items[1].info
         IN  (IF info.t = "obj" /\ NpmKeeps(NpmCurrent(info), NpmLatest(info))
              THEN <<PackageInfo(package_name, package_name,
                                 NpmCurrent(info), NpmLatest(info))>>
              ELSE <<>>)
             \o NpmRecords(Tail(items))

NpmGetUpdatablePackages(run) ==
    IF run.kind \in {"timeout", "spawn_error"} THEN Return(<<>>)
    ELSE IF run.returncode \notin {0, 1} THEN Return(<<>>)
    ELSE LET data == JsonLoads(run.stdout)
         IN  IF data.kind = "raise" THEN Return(<<>>)
             ELSE IF data.value.t # "obj" THEN Raise("AttributeError")
             ELSE Return(NpmRecords(data.value.items))

----------------------------------------------------------------------------
(* Tool outcomes a scan is run on *)

ScenarioHeader ==
    <<"N", "a", "m", "e", " ", " ", " ", "I", "d", " ", " ", " ", " ", " ", " ", " ", " ",
      "V", "e", "r", "s", "i", "o", "n", " ", " ",
      "A", "v", "a", "i", "l", "a", "b", "l", "e", " ", " ", "S", "o", "u", "r", "c", "e">>
ScenarioSeparator == [i \in 1..60 |-> "-"]
ScenarioRow ==
    <<"F", "o", "o", ".", "B", "a", "r", " ", " ",
      "F", "o", "o", ".", "B", "a", "r", ".", "I", "d", " ", " ",
      "1", ".", "0", " ", " ", " ", " ", " ", " ",
      "2", ".", "0", " ", " ", " ", " ", " ", " ", " ", " ", "w", "i", "n", "g", "e", "t">>
ScenarioText == JoinNL(<<ScenarioHeader, ScenarioSeparator, ScenarioRow>>)

HeaderFull ==
    <<"N", "a", "m", "e", " ", "I", "d", " ", "V", "e", "r", "s", "i", "o", "n", " ",
      "A", "v", "a", "i", "l", "a", "b", "l", "e", " ", "S", "o", "u", "r", "c", "e">>
HeaderThree ==
    <<"N", "a", "m", "e", " ", "I", "d", " ", "V", "e", "r", "s", "i", "o", "n">>
HeaderTwo == <<"N", "a", "m", "e", " ", "I", "d">>
DashLine == <<"-", "-", "-", "-", "-">>
BlankLine == <<>>
SpaceLine == <<" ", " ">>
NonDashLine == <<"-", "-", "x">>
RowUpdate ==
    <<"a", " ", " ", " ", " ", "b", " ", " ", "1", " ", " ", " ", " ", " ", " ", " ",
      "2", " ", " ", " ", " ", " ", " ", " ", " ", " ", "w", "i", "n", "g", "e", "t">>
RowSame ==
    <<"a", " ", " ", " ", " ", "b", " ", " ", "1", " ", " ", " ", " ", " ", " ", " ",
      "1", " ", " ", " ", " ", " ", " ", " ", " ", " ", "w", "i", "n", "g", "e", "t">>
RowNoAvail ==
    <<"a", " ", " ", " ", " ", "b", " ", " ", "1", " ", " ", " ", " ", " ", " ", " ",
      " ", " ", " ", " ", " ", " ", " ", " ", " ", " ", "w", "i", "n", "g", "e", "t">>
RowOther ==
    <<"a", " ", " ", " ", " ", "b", " ", " ", "1", " ", " ", " ", " ", " ", " ", " ",
      "2", " ", " ", " ", " ", " ", " ", " ", " ", " ", "m", "s", "s", "t", "o", "r", "e">>
RowShort == <<"a", " ", " ", " ", " ", "b">>

LineChoices ==
    {HeaderFull, HeaderThree, HeaderTwo, DashLine, BlankLine, SpaceLine, NonDashLine,
     RowUpdate, RowSame, RowNoAvail, RowOther, RowShort}

\* every line of the tool's output ends with a newline
RECURSIVE Unlines(_)
Unlines(lines) ==
    IF lines = <<>> THEN <<>> ELSE lines[1] \o <<NL>> \o Unlines(Tail(lines))

\* the scenario text and every text of at most max lines
WingetTexts(max) ==
    {ScenarioText} \cup
    UNION {{Unlines(ls) : ls \in [1..n -> LineChoices]} : n \in 0..max}

Completed(rc, out) == [kind |-> "completed", returncode |-> rc, stdout |-> out]
Failed(k) == [kind |-> k, returncode |-> 0, stdout |-> <<>>]

WingetRuns(max) ==
    {Failed("timeout"), Failed("spawn_error")} \cup
    {Completed(rc, t) : rc \in {0, 1}, t \in WingetTexts(max)}

Versions == {<<>>, <<"1">>, <<"2">>}
Keys == {<<"a">>, <<"b">>, <<"c">>}

JsonObj(fields) == [t |-> "obj", fields |-> fields, items |-> <<>>]
JsonScalar(t) == [t |-> t, fields |-> <<>>, items |-> <<>>]

\* values of a top-level key: objects with any of the two fields, or no object
Infos ==
    {JsonScalar("num")} \cup
    UNION {{JsonObj(f) : f \in [D -> Versions]} : D \in SUBSET {"current", "latest"}}

Distinct(ks) == \A i, j \in DOMAIN ks : i # j => ks[i] # ks[j]

\* the JSON objects of at most max keys
JsonObjects(max) ==
    UNION {{[t |-> "obj", fields |-> <<>>,
             items |-> [i \in 1..n |-> [key |-> ks[i], info |-> is[i]]]] :
                ks \in {k \in [1..n -> Keys] : Distinct(k)}, is \in [1..n -> Infos]} :
           n \in 0..max}

JsonValues(max) ==
    JsonObjects(max) \cup {JsonScalar("list"), JsonScalar("str"), JsonScalar("num"),
                      JsonScalar("null")}

NpmStdouts(max) ==
    {[decodes |-> FALSE, data |-> JsonScalar("null")]} \cup
    {[decodes |-> TRUE, data |-> v] : v \in JsonValues(max)}

NpmRuns(max) ==
    {Failed("timeout"), Failed("spawn_error")} \cup
    {Completed(rc, s) : rc \in {0, 1, 2}, s \in NpmStdouts(max)}

----------------------------------------------------------------------------
(* PackageManagerWidget: construction *)

\* __init__: no records, not loading; nothing logged, no worker started
WidgetConstructed ==
    /\ _packages = <<>>
    /\ _is_loading = FALSE
    /\ log = <<>>

NoWorkers ==
    /\ workers = <<>>
    /\ queue = <<>>
    /\ app_callbacks = 0
    /\ superseded = {}
    /\ assigned = <<>>

NoBatch ==
    /\ selected = <<>>
    /\ package_ids = <<>>
    /\ upg_pc = "idle"
    /\ idx = 0
    /\ procs = <<>>
    /\ output_lines = <<>>

----------------------------------------------------------------------------
(* SpecAdapter: one scan of one adapter *)

InitAdapter ==
    /\ adapter \in {"winget", "npm"}
    /\ run_result \in (IF adapter = "winget" THEN WingetRuns(MaxLines)
                                             ELSE NpmRuns(MaxEntries))
    /\ scan_pc = "ready"
    /\ parsed = <<>>
    /\ scan_out = Return(<<>>)
    /\ WidgetConstructed
    /\ NoWorkers
    /\ NoBatch

WingetScan ==
    /\ scan_pc = "ready"
    /\ adapter = "winget"
    /\ scan_pc' = "done"
    /\ parsed' = (IF run_result.kind = "completed"
                  THEN ParseWingetList(run_result.stdout) ELSE <<>>)
    /\ scan_out' = WingetGetUpdatablePackages(run_result)
    /\ UNCHANGED <<adapter, run_result, widgetVars, workerVars, upgradeVars>>

NpmScan ==
    /\ scan_pc = "ready"
    /\ adapter = "npm"
    /\ scan_pc' = "done"
    /\ scan_out' = NpmGetUpdatablePackages(run_result)
    /\ UNCHANGED <<adapter, run_result, parsed, widgetVars, workerVars, upgradeVars>>

NextAdapter == WingetScan \/ NpmScan

SpecAdapter == InitAdapter /\ [][NextAdapter]_vars

----------------------------------------------------------------------------
(* Spec: the scan workers of one PackageManagerWidget.                     *)
(*                                                                         *)
(* run_worker(..., exclusive=True) asks every earlier worker of the        *)
(* widget to cancel and starts the new one in state RUNNING; a worker's    *)
(* task ends CANCELLED when the request reaches it before it has finished, *)
(* and SUCCESS with the value _load_packages returned otherwise.  Every    *)
(* state change posts a Worker.StateChanged message, handled in posting    *)
(* order by on_worker_state_changed.  The scan itself runs on a thread     *)
(* (asyncio.to_thread) that a cancelled task leaves running.               *)
(***************************************************************************)

\* what the adapter's get_updatable_packages can give a scan thread
ScanRuns ==
    {Completed(0, [decodes |-> TRUE, data |-> JsonScalar("list")]),
     Completed(1, [decodes |-> TRUE,
                   data |-> [t |-> "obj", fields |-> <<>>,
                             items |-> <<[key |-> <<"a">>,
                                          info |-> JsonObj([current |-> <<"1">>,
                                                            latest |-> <<"2">>])]>>]]),
     Completed(1, [decodes |-> TRUE,
                   data |-> [t |-> "obj", fields |-> <<>>,
                             items |-> <<[key |-> <<"a">>,
                                          info |-> JsonObj([current |-> <<"1">>,
                                                            latest |-> <<"2">>])],
                                         [key |-> <<"b">>,
                                          info |-> JsonObj([current |-> <<"2">>,
                                                            latest |-> <<"1">>])]>>]])}

ScanOutcomes == {NpmGetUpdatablePackages(r) : r \in ScanRuns}

NewWorker(name) ==
    [name |-> name, state |-> "RUNNING", cancelled |-> FALSE,
     thread |-> "none", outcome |-> Return(<<>>), result |-> <<>>]

Outstanding(w) == w.state \in {"PENDING", "RUNNING"}

StateChanged(w, state) == [worker |-> w, state |-> state]

CancelNone(ws) == ws

\* exclusive=True: every worker of the widget is asked to cancel
CancelGroup(ws) == [i \in DOMAIN ws |-> [ws[i] EXCEPT !.cancelled = TRUE]]

\* _load_packages: the adapter's result, or [] after reporting an exception
LoadPackagesResult(outcome) ==
    IF outcome.kind = "raise" THEN <<>> ELSE outcome.value

LogScanning == [kind |-> "scanning", id |-> <<>>, text |-> <<>>]
LogFound(n) == [kind |-> "found", id |-> <<>>, text |-> <<n>>]
LogError == [kind |-> "error", id |-> <<>>, text |-> <<>>]

\* _populate_list: as far as the log goes
PopulateList(lg, packages) == Append(lg, LogFound(Len(packages)))

RefreshPackages ==
    /\ ~_is_loading
    /\ Len(workers) < MaxScans
    /\ log' = Append(log, LogScanning)
    /\ _is_loading' = TRUE
    /\ workers' = Append(CancelGroup(workers), NewWorker("refresh"))
    /\ queue' = Append(queue, StateChanged(Len(workers) + 1, "RUNNING"))
    /\ superseded' = superseded \cup {w \in DOMAIN workers : Outstanding(workers[w])}
    /\ UNCHANGED <<adapterVars, upgradeVars, _packages, app_callbacks, assigned>>

\* the worker's task reaches asyncio.to_thread: the scan starts on a thread
ScanThreadStart(w) ==
    /\ workers[w].state = "RUNNING"
    /\ ~workers[w].cancelled
    /\ workers[w].thread = "none"
    /\ workers' = [workers EXCEPT ![w].thread = "running"]
    /\ UNCHANGED <<adapterVars, upgradeVars, widgetVars, queue, app_callbacks, superseded, assigned>>

\* get_updatable_packages returns (or raises) on its thread
ScanThreadFinish(w, outcome) ==
    /\ workers[w].thread = "running"
    /\ workers' = [workers EXCEPT ![w].thread = "done", ![w].outcome = outcome]
    /\ UNCHANGED <<adapterVars, upgradeVars, widgetVars, queue, app_callbacks, superseded, assigned>>

\* the task resumes with the thread's outcome and _load_packages returns
WorkerSuccess(w) ==
    /\ workers[w].state = "RUNNING"
    /\ ~workers[w].cancelled
    /\ workers[w].thread = "done"
    /\ workers' = [workers EXCEPT ![w].state = "SUCCESS",
                                  ![w].result = LoadPackagesResult(workers[w].outcome)]
    /\ queue' = Append(queue, StateChanged(w, "SUCCESS"))
    /\ app_callbacks' = app_callbacks + (IF workers[w].outcome.kind = "raise" THEN 1 ELSE 0)
    /\ UNCHANGED <<adapterVars, upgradeVars, widgetVars, superseded, assigned>>

\* the cancel request reaches the task before it has finished
WorkerCancelled(w) ==
    /\ workers[w].state = "RUNNING"
    /\ workers[w].cancelled
    /\ workers' = [workers EXCEPT ![w].state = "CANCELLED"]
    /\ queue' = Append(queue, StateChanged(w, "CANCELLED"))
    /\ UNCHANGED <<adapterVars, upgradeVars, widgetVars, app_callbacks, superseded, assigned>>

OnWorkerStateChanged ==
    /\ queue # <<>>
    /\ LET event == Head(queue)
           worker == workers[event.worker]
       IN  /\ queue' = Tail(queue)
           /\ IF worker.name = "refresh"
              THEN /\ _is_loading' = FALSE
                   /\ IF event.state = "SUCCESS"
                      THEN /\ _packages' = worker.result
                           /\ log' = PopulateList(log, worker.result)
                           /\ assigned' = Append(assigned, event.worker)
                      ELSE /\ log' = (IF event.state = "ERROR"
                                      THEN Append(log, LogError) ELSE log)
                           /\ UNCHANGED <<_packages, assigned>>
              ELSE UNCHANGED <<widgetVars, assigned>>
    /\ UNCHANGED <<adapterVars, upgradeVars, workers, app_callbacks, superseded>>

\* the callback _load_packages gave to app.call_later
ShowError ==
    /\ app_callbacks > 0
    /\ app_callbacks' = app_callbacks - 1
    /\ log' = Append(log, LogError)
    /\ UNCHANGED <<adapterVars, upgradeVars, _packages, _is_loading, workers, queue, superseded, assigned>>

Init ==
    /\ adapter = "npm"
    /\ run_result = Failed("spawn_error")
    /\ scan_pc = "ready"
    /\ parsed = <<>>
    /\ scan_out = Return(<<>>)
    /\ WidgetConstructed
    /\ NoWorkers
    /\ NoBatch

Next ==
    \/ RefreshPackages
    \/ \E w \in DOMAIN workers : ScanThreadStart(w)
    \/ \E w \in DOMAIN workers : \E outcome \in ScanOutcomes : ScanThreadFinish(w, outcome)
    \/ \E w \in DOMAIN workers : WorkerSuccess(w)
    \/ \E w \in DOMAIN workers : WorkerCancelled(w)
    \/ OnWorkerStateChanged
    \/ ShowError

Spec == Init /\ [][Next]_vars

----------------------------------------------------------------------------
(* Exit codes.  A code is the pair <<hi, lo>> standing for hi * 2^16 + lo   *)
(* (0 <= lo < 2^16), which holds the 32-bit codes and their signed          *)
(* counterparts exactly; None is the absent returncode.                     *)

Code(hi, lo) == <<hi, lo>>
Small(n) == Code(0, n)
Zero == Small(0)
None == <<>>

AboveNever(code) == FALSE

\* code > 0x7FFFFFFF
AboveInt32Max(code) == code[1] > 32767

\* code - 0x100000000
MinusTwo32(code) == Code(code[1] - 65536, code[2])

\* d[k] = v
Put(d, k, v) == [x \in (DOMAIN d) \cup {k} |-> IF x = k THEN v ELSE d[x]]

\* hex_codes(*pairs)
RECURSIVE HexCodes(_)
HexCodes(pairs) ==
    IF pairs = <<>> THEN <<>>
    ELSE LET result == HexCodes(SubSeq(pairs, 1, Len(pairs) - 1))
             code == pairs[Len(pairs)][1]
             msg == pairs[Len(pairs)][2]
         IN  IF AboveInt32Max(code)
             THEN Put(Put(result, code, msg), MinusTwo32(code), msg)
             ELSE Put(result, code, msg)

\* {**a, **b}
Merge(a, b) ==
    [x \in (DOMAIN a) \cup (DOMAIN b) |-> IF x \in DOMAIN b THEN b[x] ELSE a[x]]

\* the 0x8A15xxxx codes of _get_exit_codes (0x8A15 = 35349); the source's
\* em dashes are written " - "
WingetHexPairs ==
    <<<<Code(35349, 6), "ShellExecute install failed">>,
      <<Code(35349, 8), "Downloading installer failed">>,
      <<Code(35349, 16), "No applicable installer for this system">>,
      <<Code(35349, 17), "Installer hash mismatch">>,
      <<Code(35349, 25), "Requires administrator privileges">>,
      <<Code(35349, 43), "No applicable update found">>,
      <<Code(35349, 79), "Upgrade version is not newer than installed">>,
      <<Code(35349, 97), "Package is already installed">>,
      <<Code(35349, 257), "App is running - close it and retry">>,
      <<Code(35349, 258), "Another installation in progress - try later">>,
      <<Code(35349, 259), "File in use - close the app and retry">>,
      <<Code(35349, 261), "Not enough disk space">>,
      <<Code(35349, 264), "Installer error - contact support">>,
      <<Code(35349, 265), "Restart PC to finish installation">>,
      <<Code(35349, 266), "Installation failed - restart PC and retry">>,
      <<Code(35349, 268), "Installation was cancelled">>,
      <<Code(35349, 269), "Another version already installed">>,
      <<Code(35349, 270), "A higher version is already installed">>,
      <<Code(35349, 271), "Blocked by organization policy">>>>

WingetExitCodes ==
    Merge(Put(Put(<<>>, Small(3), "Reboot required to complete"),
              Small(5), "Access denied - needs admin elevation"),
          HexCodes(WingetHexPairs))

NpmExitCodes ==
    Put(Put(Put(<<>>, Zero, "Success"), Small(1), "General error"),
        Small(127), "Command not found")

\* a message: a registered text, or a fallback template with the code in it
Registered(text) == [text |-> text, code |-> None]
Fallback(text, code) == [text |-> text, code |-> code]

WingetExitCodeMessage(code) ==
    IF code \in DOMAIN WingetExitCodes
    THEN Registered(WingetExitCodes[code])
    ELSE Fallback("Unknown error (code {code})", code)

NpmExitCodeMessage(code) ==
    IF code \in DOMAIN NpmExitCodes
    THEN Registered(NpmExitCodes[code])
    ELSE Fallback("npm error (code {code})", code)

GetExitCodeMessage(manager, code) ==
    IF manager = "winget" THEN WingetExitCodeMessage(code) ELSE NpmExitCodeMessage(code)

----------------------------------------------------------------------------
(* SpecUpgrade: one upgrade batch of one widget.                           *)
(*                                                                         *)
(* _run_upgrades runs as a coroutine: a step of the model is the code      *)
(* between two awaits.  upgrade_package awaits the spawn of the child,     *)
(* each readline and proc.wait(); the child writes lines to the pipe,      *)
(* closes it and exits on its own.  The batch is followed from             *)
(* upgrade_selected to its end with no other worker started on the widget. *)
(***************************************************************************)

NoChild ==
    [state |-> "none", stdout_open |-> FALSE, pipe |-> <<>>, written |-> <<>>,
     returncode |-> None]

NewChild ==
    [state |-> "running", stdout_open |-> TRUE, pipe |-> <<>>, written |-> <<>>,
     returncode |-> None]

\* what a child can write as one line, and how it can exit
RawLines == {<<"x", NL>>, <<" ", NL>>}
ExitCodes == {Zero, Small(1), Small(5)}
SpawnErrors == {"FileNotFoundError"}

LogEntry(kind, id, text) == [kind |-> kind, id |-> id, text |-> text]
LogNoneSelected == LogEntry("none_selected", <<>>, <<>>)
LogUpgrading(n) == LogEntry("upgrading", <<>>, <<n>>)
LogStart(id) == LogEntry("start", id, <<>>)
LogLine(id, line) == LogEntry("out", id, line)
LogOk(id) == LogEntry("ok", id, <<>>)
LogFailed(id, msg) == LogEntry("failed", id, msg)
LogErrorUpgrading(id, exc) == LogEntry("error_upgrading", id, exc)
LogComplete == LogEntry("complete", <<>>, <<>>)

\* proc.returncode or 0
ReturnCode(proc) == IF proc.returncode = None THEN Zero ELSE proc.returncode

WaitSkipped(proc) == TRUE

\* await proc.wait() returns once the child has exited
WaitDone(proc) == proc.state = "exited"

CaughtNever(exc) == FALSE

\* `except Exception` of the loop body: what a failed spawn raises is caught
CaughtByExcept(exc) == exc \in SpawnErrors

RemoveByName(packages, pkg_id) == SelectSeq(packages, LAMBDA p : p.name # pkg_id)

\* [p for p in self._packages if p.package_id != pkg_id]
RECURSIVE RemoveUpgraded(_, _)
RemoveUpgraded(packages, pkg_id) ==
    IF packages = <<>> THEN <<>>
    ELSE (IF packages[1].package_id # pkg_id THEN <<packages[1]>> ELSE <<>>)
         \o RemoveUpgraded(Tail(packages), pkg_id)

\* lines 474-477: the non-blank lines of the output, one log line each
RECURSIVE WriteLines(_, _, _)
WriteLines(lg, id, lines) ==
    IF lines = <<>> THEN lg
    ELSE WriteLines(IF Strip(lines[1]) # <<>> THEN Append(lg, LogLine(id, lines[1])) ELSE lg,
                    id, Tail(lines))

WriteOutput(lg, id, output) ==
    IF output # <<>> THEN WriteLines(lg, id, SplitNL(output)) ELSE lg

\* the loop goes on to item i: its start line and the spawn, or the end
GoToItem(lg, i) ==
    IF i <= Len(package_ids)
    THEN /\ log' = Append(lg, LogStart(package_ids[i]))
         /\ idx' = i
         /\ upg_pc' = "spawn"
    ELSE /\ log' = Append(lg, LogComplete)
         /\ idx' = i
         /\ upg_pc' = "done"

UpgradeSelected ==
    /\ upg_pc = "idle"
    /\ IF selected = <<>>
       THEN /\ log' = Append(log, LogNoneSelected)
            /\ upg_pc' = "none_selected"
            /\ UNCHANGED <<package_ids, procs>>
       ELSE /\ package_ids' = selected
            /\ procs' = [i \in DOMAIN selected |-> NoChild]
            /\ upg_pc' = "begin"
            /\ UNCHANGED log
    /\ UNCHANGED <<adapterVars, workerVars, _packages, _is_loading, selected, idx,
                   output_lines>>

RunUpgradesBegin ==
    /\ upg_pc = "begin"
    /\ GoToItem(Append(log, LogUpgrading(Len(package_ids))), 1)
    /\ UNCHANGED <<adapterVars, workerVars, _packages, _is_loading, selected,
                   package_ids, procs, output_lines>>

\* asyncio.create_subprocess_exec returns the child
SpawnChild ==
    /\ upg_pc = "spawn"
    /\ procs' = [procs EXCEPT ![idx] = NewChild]
    /\ output_lines' = <<>>
    /\ upg_pc' = "read"
    /\ UNCHANGED <<adapterVars, workerVars, widgetVars, selected, package_ids, idx>>

\* asyncio.create_subprocess_exec raises
SpawnFails(exc) ==
    /\ upg_pc = "spawn"
    /\ procs' = [procs EXCEPT ![idx].state = "spawn_failed"]
    /\ IF CaughtByExcept(exc)
       THEN GoToItem(Append(log, LogErrorUpgrading(package_ids[idx], exc)), idx + 1)
       ELSE /\ upg_pc' = "raised"
            /\ UNCHANGED <<log, idx>>
    /\ UNCHANGED <<adapterVars, workerVars, _packages, _is_loading, selected,
                   package_ids, output_lines>>

ChildWrites(i, line) ==
    /\ procs[i].state = "running"
    /\ procs[i].stdout_open
    /\ Len(procs[i].written) < MaxChildLines
    /\ procs' = [procs EXCEPT ![i].pipe = Append(@, line),
                              ![i].written = Append(@, line)]
    /\ UNCHANGED <<adapterVars, workerVars, widgetVars, selected, package_ids, upg_pc,
                   idx, output_lines>>

ChildClosesStdout(i) ==
    /\ procs[i].state = "running"
    /\ procs[i].stdout_open
    /\ procs' = [procs EXCEPT ![i].stdout_open = FALSE]
    /\ UNCHANGED <<adapterVars, workerVars, widgetVars, selected, package_ids, upg_pc,
                   idx, output_lines>>

ChildExits(i, rc) ==
    /\ procs[i].state = "running"
    /\ procs' = [procs EXCEPT ![i].state = "exited",
                              ![i].stdout_open = FALSE,
                              ![i].returncode = rc]
    /\ UNCHANGED <<adapterVars, workerVars, widgetVars, selected, package_ids, upg_pc,
                   idx, output_lines>>

\* await proc.stdout.readline() returns a line
ReadLine ==
    /\ upg_pc = "read"
    /\ procs[idx].pipe # <<>>
    /\ output_lines' = Append(output_lines, RStrip(Head(procs[idx].pipe)))
    /\ procs' = [procs EXCEPT ![idx].pipe = Tail(@)]
    /\ UNCHANGED <<adapterVars, workerVars, widgetVars, selected, package_ids, upg_pc, idx>>

\* await proc.stdout.readline() returns b"" at end of stream
ReadEof ==
    /\ upg_pc = "read"
    /\ procs[idx].pipe = <<>>
    /\ ~procs[idx].stdout_open
    /\ upg_pc' = "wait"
    /\ UNCHANGED <<adapterVars, workerVars, widgetVars, selected, package_ids, idx,
                   procs, output_lines>>

\* await proc.wait() returns; upgrade_package returns; lines 474-489
UpgradeReturns ==
    /\ upg_pc = "wait"
    /\ WaitDone(procs[idx])
    /\ LET pkg_id == package_ids[idx]
           rc == ReturnCode(procs[idx])
           output == JoinNL(output_lines)
           written == WriteOutput(log, pkg_id, output)
       IN  IF rc = Zero
           THEN /\ _packages' = RemoveUpgraded(_packages, pkg_id)
                /\ GoToItem(PopulateList(Append(written, LogOk(pkg_id)),
                                         RemoveUpgraded(_packages, pkg_id)),
                            idx + 1)
           ELSE /\ _packages' = _packages
                /\ GoToItem(Append(written,
                                   LogFailed(pkg_id, GetExitCodeMessage(adapter, rc))),
                            idx + 1)
    /\ UNCHANGED <<adapterVars, workerVars, _is_loading, selected, package_ids, procs,
                   output_lines>>

Pkg(n, i) == PackageInfo(n, i, <<"1">>, <<"2">>)

\* the records of an earlier scan: ids a, b, c, and id a a second time
ScannedPackages ==
    <<Pkg(<<"a">>, <<"a">>), Pkg(<<"b">>, <<"b">>), Pkg(<<"b">>, <<"a">>),
      Pkg(<<"c">>, <<"c">>)>>

\* the selections of at most max distinct ids
Selections(max) ==
    UNION {{ks \in [1..n -> Keys] : Distinct(ks)} : n \in 0..max}

InitUpgrade ==
    /\ adapter \in {"winget", "npm"}
    /\ run_result = Failed("spawn_error")
    /\ scan_pc = "ready"
    /\ parsed = <<>>
    /\ scan_out = Return(<<>>)
    /\ _packages = ScannedPackages
    /\ _is_loading = FALSE
    /\ log = <<>>
    /\ NoWorkers
    /\ selected \in Selections(MaxBatch)
    /\ package_ids = <<>>
    /\ upg_pc = "idle"
    /\ idx = 0
    /\ procs = <<>>
    /\ output_lines = <<>>

NextUpgrade ==
    \/ UpgradeSelected
    \/ RunUpgradesBegin
    \/ SpawnChild
    \/ \E exc \in SpawnErrors : SpawnFails(exc)
    \/ \E i \in DOMAIN procs : \E line \in RawLines : ChildWrites(i, line)
    \/ \E i \in DOMAIN procs : ChildClosesStdout(i)
    \/ \E i \in DOMAIN procs : \E rc \in ExitCodes : ChildExits(i, rc)
    \/ ReadLine
    \/ ReadEof
    \/ UpgradeReturns

SpecUpgrade == InitUpgrade /\ [][NextUpgrade]_vars

----------------------------------------------------------------------------
(* SpecExitCode: the upgrade of one winget or npm package whose child can  *)
(* exit with any code of WideExitCodes; _run_upgrades translates the code  *)
(* with the adapter's get_exit_code_message.                               *)
(***************************************************************************)

\* an unregistered code of the 0x8A15xxxx range, and 0x7FFFFFFF, the largest
\* code that has no signed counterpart
UnregisteredHex == Code(35349, 7)
Int32Max == Code(32767, 65535)

\* the return codes of the child: every key of the winget table, both
\* representations of an unregistered wide code, the small codes and what
\* their "signed counterparts" would be, and codes the npm table holds
WideExitCodes ==
    (DOMAIN WingetExitCodes)
        \cup {p[1] : p \in {WingetHexPairs[k] : k \in DOMAIN WingetHexPairs}}
        \cup {UnregisteredHex, MinusTwo32(UnregisteredHex), Int32Max,
              MinusTwo32(Int32Max), Zero, Small(1), Small(3), Small(5), Small(127),
              MinusTwo32(Small(3)), MinusTwo32(Small(5))}

InitExitCode ==
    /\ adapter \in {"winget", "npm"}
    /\ run_result = Failed("spawn_error")
    /\ scan_pc = "ready"
    /\ parsed = <<>>
    /\ scan_out = Return(<<>>)
    /\ _packages = ScannedPackages
    /\ _is_loading = FALSE
    /\ log = <<>>
    /\ NoWorkers
    /\ selected \in {<<k>> : k \in Keys}
    /\ package_ids = <<>>
    /\ upg_pc = "idle"
    /\ idx = 0
    /\ procs = <<>>
    /\ output_lines = <<>>

NextExitCode ==
    \/ UpgradeSelected
    \/ RunUpgradesBegin
    \/ SpawnChild
    \/ \E exc \in SpawnErrors : SpawnFails(exc)
    \/ \E i \in DOMAIN procs : \E line \in RawLines : ChildWrites(i, line)
    \/ \E i \in DOMAIN procs : ChildClosesStdout(i)
    \/ \E i \in DOMAIN procs : \E rc \in WideExitCodes : ChildExits(i, rc)
    \/ ReadLine
    \/ ReadEof
    \/ UpgradeReturns

SpecExitCode == InitExitCode /\ [][NextExitCode]_vars

----------------------------------------------------------------------------
(* Claims about the adapters' scan, checked under SpecAdapter *)

ScanDone == scan_pc = "done"
RanToCompletion == run_result.kind = "completed"

InvocationFailed ==
    \/ run_result.kind \in {"timeout", "spawn_error"}
    \/ adapter = "npm" /\ RanToCompletion /\ run_result.returncode \notin {0, 1}

MalformedOutput ==
    /\ RanToCompletion
    /\ IF adapter = "npm"
       THEN ~run_result.stdout.decodes \/ run_result.stdout.data.t # "obj"
       ELSE \A i \in DOMAIN SplitLines(run_result.stdout) :
                ~IsHeader(SplitLines(run_result.stdout)[i])

\* C1: a scan of either adapter never raises to its caller, whatever the tool
\* invocation did, and returns the empty sequence when the invocation failed
\* or the output is malformed (no header line; undecodable or non-object JSON).
C1_ScanNeverRaises ==
    ScanDone =>
        /\ scan_out.kind = "return"
        /\ (InvocationFailed \/ MalformedOutput) => scan_out.value = <<>>

NpmDecodedObject ==
    /\ adapter = "npm"
    /\ RanToCompletion
    /\ run_result.returncode \in {0, 1}
    /\ run_result.stdout.decodes
    /\ run_result.stdout.data.t = "obj"

HasBothFields(info) ==
    /\ info.t = "obj"
    /\ "current" \in DOMAIN info.fields
    /\ "latest" \in DOMAIN info.fields
    /\ info.fields["current"] # <<>>
    /\ info.fields["latest"] # <<>>
    /\ info.fields["current"] # info.fields["latest"]

\* C2: in a scan of the npm adapter over a decoded JSON object, a record for
\* key k is returned if and only if k's entry has both "current" and "latest",
\* both non-empty and unequal, and the record carries k and the two fields.
C2_NpmRecordIffBothFields ==
    (ScanDone /\ NpmDecodedObject /\ scan_out.kind = "return") =>
        \A i \in DOMAIN run_result.stdout.data.items :
            LET item == run_result.stdout.data.items[i]
                recs == {j \in DOMAIN scan_out.value : scan_out.value[j].name = item.key}
            IN  /\ recs # {} <=> HasBothFields(item.info)
                /\ \A j \in recs :
                      scan_out.value[j] =
                          PackageInfo(item.key, item.key,
                                      item.info.fields["current"], item.info.fields["latest"])

ScenarioScanned ==
    /\ ScanDone
    /\ adapter = "winget"
    /\ RanToCompletion
    /\ run_result.stdout = ScenarioText

\* C3 as stated: the scenario text yields exactly one record, name "Foo.Bar",
\* package_id "Foo.Bar.Id", current_version "1.0", available_version "2.0".
C3_ScenarioAsClaimed ==
    ScenarioScanned =>
        scan_out = Return(<<PackageInfo(<<"F", "o", "o", ".", "B", "a", "r">>,
                                        <<"F", "o", "o", ".", "B", "a", "r", ".", "I", "d">>,
                                        <<"1", ".", "0">>,
                                        <<"2", ".", "0">>)>>)

\* C3 amended: the scenario text yields exactly one record, name "Foo.Bar",
\* package_id "Foo.Bar." (offsets 7..16 of the row), current_version "Id  1.0"
\* (offsets 17..25 of the row), available_version "2.0".
C3_ScenarioByOffsets ==
    ScenarioScanned =>
        scan_out = Return(<<PackageInfo(<<"F", "o", "o", ".", "B", "a", "r">>,
                                        <<"F", "o", "o", ".", "B", "a", "r", ".">>,
                                        <<"I", "d", " ", " ", "1", ".", "0">>,
                                        <<"2", ".", "0">>)>>)

C3_Witness ==
    /\ ScenarioScanned
    /\ FoundColumns(ScenarioHeader) =
          <<<<"Name", 0>>, <<"Id", 7>>, <<"Version", 17>>, <<"Available", 26>>,
            <<"Source", 37>>>>
    /\ Len(parsed) = 1
    /\ Len(scan_out.value) = 1

\* C4: no record returned by a scan of either adapter has equal current and
\* available versions.
C4_VersionsDiffer ==
    (ScanDone /\ scan_out.kind = "return") =>
        \A i \in DOMAIN scan_out.value :
            scan_out.value[i].available_version # scan_out.value[i].current_version

HeaderFound ==
    /\ adapter = "winget"
    /\ RanToCompletion
    /\ \E i \in DOMAIN SplitLines(run_result.stdout) :
           IsHeader(SplitLines(run_result.stdout)[i])

\* the line right after the first header line exists and, stripped, is a
\* non-empty string of dash characters only
DashSeparatorFollows ==
    LET lines == SplitLines(run_result.stdout)
        h == MinOf({i \in DOMAIN lines : IsHeader(lines[i])})
    IN  /\ h + 1 <= Len(lines)
        /\ Strip(lines[h + 1]) # <<>>
        /\ \A k \in DOMAIN Strip(lines[h + 1]) : Strip(lines[h + 1])[k] = "-"

\* C5: when a header line is found, the table parser returns the empty
\* sequence unless the next line exists and, stripped, is a non-empty run of
\* dashes: a blank or whitespace-only next line yields an empty result too.
C5_SeparatorRequired ==
    (ScanDone /\ HeaderFound /\ ~DashSeparatorFollows) => parsed = <<>>

----------------------------------------------------------------------------
(* Claims about the scan workers, checked under Spec *)

WasAssigned(w) == \E i \in DOMAIN assigned : assigned[i] = w

AllScansFinished ==
    /\ workers # <<>>
    /\ \A w \in DOMAIN workers : ~Outstanding(workers[w])
    /\ queue = <<>>

----------------------------------------------------------------------------
(* Claims about the upgrade batch, checked under SpecUpgrade *)

Alive == {i \in DOMAIN procs : procs[i].state = "running"}
Finished(i) == procs[i].state \in {"exited", "spawn_failed"}

StatusKinds == {"ok", "failed", "error_upgrading"}
IsStatusOf(entry, id) == entry.id = id /\ entry.kind \in StatusKinds
StatusLinesOf(id) == SelectSeq(log, LAMBDA entry : IsStatusOf(entry, id))
OutputLinesOf(id) == SelectSeq(log, LAMBDA entry : entry.id = id /\ entry.kind = "out")
StartLines == SelectSeq(log, LAMBDA entry : entry.kind = "start")

\* the log lines written for an item of the batch, in log order
ItemLines == SelectSeq(log, LAMBDA entry : entry.id # <<>>)

\* position of an id in the batch (the selected ids are distinct)
PositionOf(id) == CHOOSE i \in DOMAIN package_ids : package_ids[i] = id

\* the lines a child wrote, as the log shows them: stripped on the right,
\* the blank ones left out
RECURSIVE ShownLines(_, _)
ShownLines(id, written) ==
    IF written = <<>> THEN <<>>
    ELSE (IF Strip(written[1]) # <<>> THEN <<LogLine(id, RStrip(written[1]))>> ELSE <<>>)
         \o ShownLines(id, Tail(written))

\* C7: within one batch the upgrades run one after another in selection
\* order: at most one child is alive; the child of a later id is spawned only
\* after the earlier id's child has exited (or failed to spawn) and all its
\* log lines, including its status line, are written; and in the log the
\* lines of an earlier id all precede the lines of a later id (the lines
\* written for the items never step back to an earlier id).
C7_BatchIsSequential ==
    /\ Cardinality(Alive) <= 1
    /\ \A i, j \in DOMAIN procs :
          (i < j /\ procs[j].state # "none") =>
              /\ Finished(i)
              /\ Len(StatusLinesOf(package_ids[i])) = 1
              /\ OutputLinesOf(package_ids[i]) = ShownLines(package_ids[i], procs[i].written)
    /\ \A m \in 1..(Len(ItemLines) - 1) :
          PositionOf(ItemLines[m].id) <= PositionOf(ItemLines[m + 1].id)

\* the second child runs after the first one exited with a line in the log
C7_Witness ==
    /\ Len(package_ids) >= 2
    /\ procs[2].state = "running"
    /\ procs[1].state = "exited"
    /\ Len(OutputLinesOf(package_ids[1])) >= 1
    /\ Len(StatusLinesOf(package_ids[1])) = 1

\* the status line the outcome of item i calls for
ExpectedStatus(i) ==
    LET id == package_ids[i]
    IN  IF procs[i].state = "spawn_failed"
        THEN {LogErrorUpgrading(id, exc) : exc \in SpawnErrors}
        ELSE IF ReturnCode(procs[i]) = Zero THEN {LogOk(id)}
        ELSE {LogFailed(id, GetExitCodeMessage(adapter, ReturnCode(procs[i])))}

BatchStarted == upg_pc \in {"spawn", "read", "wait", "done", "raised"}

\* C8: a failing item never aborts the batch: no exception leaves
\* _run_upgrades; the ids are started once each in selection order; every
\* item behind the loop has exactly one status line, the one its outcome calls
\* for (success, the translated exit code with the id, or the spawn error with
\* the id); the batch ends with every id attempted and "All upgrades
\* complete" as its last line; and before that end it is never left without
\* a next step.
C8_FailuresDoNotAbortBatch ==
    /\ upg_pc # "raised"
    /\ BatchStarted =>
          /\ idx \in 1..(Len(package_ids) + 1)
          /\ Len(StartLines) = (IF upg_pc = "done" THEN idx - 1 ELSE idx)
          /\ \A k \in DOMAIN StartLines : StartLines[k].id = package_ids[k]
          /\ \A i \in DOMAIN package_ids :
                i < idx =>
                    /\ Finished(i)
                    /\ Len(StatusLinesOf(package_ids[i])) = 1
                    /\ StatusLinesOf(package_ids[i])[1] \in ExpectedStatus(i)
    /\ upg_pc = "done" =>
          /\ idx = Len(package_ids) + 1
          /\ log[Len(log)] = LogComplete
    /\ (BatchStarted /\ upg_pc # "done") => ENABLED NextUpgrade

\* the first item failed to spawn, a later one exited non-zero, and the batch
\* reached its end
C8_Witness ==
    /\ upg_pc = "done"
    /\ Len(package_ids) >= 2
    /\ procs[1].state = "spawn_failed"
    /\ procs[2].state = "exited"
    /\ ReturnCode(procs[2]) = Small(5)

\* C9: the child's output reaches the caller of upgrade_package, and the
\* log, line by line while the child is still running: a non-blank line the
\* executor has read from a running child is already in the log.
C9_OutputIsStreamed ==
    \A i \in Alive :
        (i = idx /\ upg_pc \in {"read", "wait"}) =>
            \A k \in DOMAIN output_lines :
                Strip(output_lines[k]) # <<>> =>
                    \E m \in DOMAIN log :
                        /\ log[m].kind = "out"
                        /\ log[m].id = package_ids[i]
                        /\ log[m].text = output_lines[k]

\* C10: the step in which an upgrade of id p returns 0 leaves _packages
\* without any record of id p, the other records unchanged and in order; every
\* other step of the batch (a non-zero return, a failed spawn, any other)
\* leaves _packages unchanged.
C10_RemovedExactlyOnSuccess ==
    [][IF upg_pc = "wait" /\ upg_pc' # "wait" /\ ReturnCode(procs[idx]) = Zero
       THEN /\ \A k \in DOMAIN _packages' : _packages'[k].package_id # package_ids[idx]
            /\ _packages' =
                  SelectSeq(_packages, LAMBDA r : r.package_id # package_ids[idx])
       ELSE _packages' = _packages]_vars

\* id a was upgraded with exit code 0 and id b was not: both records of id a
\* are gone, the others are left
C10_Witness ==
    /\ upg_pc = "done"
    /\ Len(StatusLinesOf(<<"a">>)) = 1
    /\ StatusLinesOf(<<"a">>)[1].kind = "ok"
    /\ Len(StatusLinesOf(<<"b">>)) = 1
    /\ StatusLinesOf(<<"b">>)[1].kind # "ok"
    /\ _packages = <<Pkg(<<"b">>, <<"b">>), Pkg(<<"c">>, <<"c">>)>>

----------------------------------------------------------------------------
(* Claims about the exit-code translation, checked under SpecExitCode *)

\* a code of the winget table's 0x8A15xxxx list, with its message
HexPairs == {WingetHexPairs[k] : k \in DOMAIN WingetHexPairs}

\* the failure lines of the log, with the return code of their child
FailedLines == {i \in DOMAIN log : log[i].kind = "failed"}
ReturnCodeOfLine(i) == procs[PositionOf(log[i].id)].returncode

\* C11: in the winget table every registered code c above 0x7FFFFFFF and
\* c - 2^32 translate to the same message, the one registered for c and not
\* the unknown-code fallback; 3 and 5 translate to their registered message
\* under their own value only, 3 - 2^32 and 5 - 2^32 to the fallback.
C11_SignedAndUnsignedAgree ==
    /\ \A p \in HexPairs :
           /\ p[1][1] >= 32768
           /\ WingetExitCodeMessage(p[1]) = Registered(p[2])
           /\ WingetExitCodeMessage(MinusTwo32(p[1])) = WingetExitCodeMessage(p[1])
    /\ \A c \in {Small(3), Small(5)} :
           /\ WingetExitCodeMessage(c).code = None
           /\ WingetExitCodeMessage(MinusTwo32(c)) =
                  Fallback("Unknown error (code {code})", MinusTwo32(c))
    /\ adapter = "winget" =>
           \A i \in FailedLines :
               LET rc == ReturnCodeOfLine(i)
               IN  /\ \A p \in HexPairs :
                          rc \in {p[1], MinusTwo32(p[1])} =>
                              log[i].text = Registered(p[2])
                   /\ rc = Small(3) => log[i].text = Registered("Reboot required to complete")
                   /\ rc = Small(5) =>
                          log[i].text = Registered("Access denied - needs admin elevation")
                   /\ rc \in {MinusTwo32(Small(3)), MinusTwo32(Small(5))} =>
                          log[i].text = Fallback("Unknown error (code {code})", rc)

\* a winget upgrade exited with 0x8A150019 - 2^32 and the log shows the message
\* registered for 0x8A150019
C11_Witness ==
    /\ adapter = "winget"
    /\ upg_pc = "done"
    /\ \E i \in FailedLines :
           /\ ReturnCodeOfLine(i) = Code(35349 - 65536, 25)
           /\ log[i].text = Registered("Requires administrator privileges")

----------------------------------------------------------------------------
(* Claim about the _is_loading guard, checked under Spec *)

\* the scans in flight: workers whose get_updatable_packages is running
ScansInFlight == {w \in DOMAIN workers : workers[w].thread = "running"}

\* C12: scans are single-flight: while a scan worker has not reached SUCCESS,
\* ERROR or CANCELLED, _is_loading is true (so refresh_packages starts no
\* second worker), and at most one invocation of get_updatable_packages is
\* running, whatever the order of the worker's state-change events.
C12_ScansAreSingleFlight ==
    /\ (\E w \in DOMAIN workers :
            workers[w].name = "refresh" /\ Outstanding(workers[w])) => _is_loading
    /\ Cardinality(ScansInFlight) <= 1

\* the second half of C12 on its own: two scans of the widget run at once
C12_TwoScansInFlight == Cardinality(ScansInFlight) >= 2

====
